---- MODULE Spec2Model ----
(***************************************************************************)
(* A model of pagerank.py: transition_model, sample_pagerank and           *)
(* iterate_pagerank, driven by a caller that holds one corpus and calls    *)
(* the three functions on it.                                              *)
(*                                                                         *)
(* Numbers.  The program computes in binary64.  transition_model's         *)
(* probabilities are modelled exactly, as integer numerators over one      *)
(* denominator per distribution.  iterate_pagerank's ranks are modelled in *)
(* fixed point with Scale units per 1.0, every division and every product  *)
(* rounded to the nearest unit where the program rounds to the nearest     *)
(* binary64.  A damping factor is a pair <<numerator, denominator>>.       *)
(*                                                                         *)
(* Dictionaries are functions; a dictionary's key order is the ascending   *)
(* order of the node numbers (every labelled graph is enumerated, so every *)
(* insertion order of every graph is covered).  The enumeration order of a *)
(* Python set is not fixed by the language: where it matters (line 137) it *)
(* is a choice made once per call.                                         *)
(***************************************************************************)
EXTENDS Integers, Sequences, FiniteSets, TLC

\* Bounds of the model.
MaxNodes == 2
MaxSamples == 2
MaxLiveNodes == 4

\* Fixed-point units per 1.0 for iterate_pagerank's ranks.
Scale == 10^6

\* DAMPING = 0.85
DAMPING == <<17, 20>>

\* The damping factors the caller may pass: 0, 1/2, DAMPING and 1.
Dampings == {<<0, 1>>, <<1, 2>>, DAMPING, <<1, 1>>}

\* while maxdifference > 0.0001
Tolerance == Scale \div 10^4

VARIABLES
    corpus,            \* the dictionary page -> set of linked pages the caller holds
    graph0,            \* the corpus as crawl returned it
    damping_factor,    \* the damping factor of the calls
    pc,                \* "main" | "sampling" | "iterating" | "raised"
    model,             \* the last distribution transition_model returned, or NoModel
    n, i,              \* sample_pagerank: number of samples, loop index
    page, nextpage,    \* sample_pagerank: current and next page (0 is None)
    pageRanks,         \* sample_pagerank: visit counters
    pageRank,          \* iterate_pagerank: the rank table, updated in place
    lastrank,          \* iterate_pagerank: copy of pageRank taken before a pass
    links_to,          \* iterate_pagerank: reverse index
    before,            \* iterate_pagerank: for a page in its own links_to set, the
                       \* other members the set enumerates before the page itself
    maxdifference,     \* iterate_pagerank: largest change of the last pass
    ret                \* what the last finished call returned or raised

vars == <<corpus, graph0, damping_factor, pc, model, n, i, page, nextpage,
          pageRanks, pageRank, lastrank, links_to, before, maxdifference, ret>>

----------------------------------------------------------------------------
\* Helpers

RECURSIVE SumOver(_, _)
SumOver(f, S) ==
    IF S = {} THEN 0
    ELSE LET x == CHOOSE y \in S : TRUE
         IN f[x] + SumOver(f, S \ {x})

Sum(f) == SumOver(f, DOMAIN f)

Abs(x) == IF x < 0 THEN -x ELSE x

\* x / k rounded to the nearest unit (x >= 0, k > 0)
DivRound(x, k) == (2 * x + k) \div (2 * k)

\* The corpora crawl can return over k pages: no page links to itself
\* (line 39) and every link is a page of the corpus (lines 42-46).
Graphs(k) ==
    {g \in [1..k -> SUBSET (1..k)] : \A p \in 1..k : p \notin g[p]}

NoModel == [page |-> 0, den |-> 0, mass |-> <<>>]
NoRet == [fn |-> "", exc |-> "", den |-> 0, num |-> <<>>]

----------------------------------------------------------------------------
\* transition_model(corpus, page, damping_factor), lines 51-70.
\* The distribution is mass[key] / den.  With outlinks, den is
\* d.den * |corpus| * |corpus[page]|: (1-d)/|corpus| is
\* (d.den - d.num) * |corpus[page]| of these units and d/|corpus[page]| is
\* d.num * |corpus|.  Without outlinks den is |corpus| and every mass is 1.
\* transition_model with the sink branch giving (1-damping_factor)/len(corpus)
\* to every page instead of 1/len(corpus).
transition_model_sink_damped(c, p, d) ==
    LET N == Cardinality(DOMAIN c)
        out == Cardinality(c[p])
    IN  IF out # 0
        THEN [page |-> p,
              den |-> d[2] * N * out,
              mass |-> [key \in DOMAIN c |->
                          (d[2] - d[1]) * out
                          + (IF key \in c[p] THEN d[1] * N ELSE 0)]]
        ELSE [page |-> p,
              den |-> d[2] * N,
              mass |-> [key \in DOMAIN c |-> d[2] - d[1]]]

\* transition_model with damping_factor/len(corpus[page]) added to the pages
\* that are not linked instead of the linked ones.
transition_model_unlinked(c, p, d) ==
    LET N == Cardinality(DOMAIN c)
        out == Cardinality(c[p])
    IN  IF out # 0
        THEN [page |-> p,
              den |-> d[2] * N * out,
              mass |-> [key \in DOMAIN c |->
                          (d[2] - d[1]) * out
                          + (IF key \notin c[p] THEN d[1] * N ELSE 0)]]
        ELSE [page |-> p,
              den |-> N,
              mass |-> [key \in DOMAIN c |-> 1]]

transition_model(c, p, d) ==
    LET N == Cardinality(DOMAIN c)
        out == Cardinality(c[p])
    IN  IF out # 0
        THEN [page |-> p,
              den |-> d[2] * N * out,
              mass |-> [key \in DOMAIN c |->
                          (d[2] - d[1]) * out
                          + (IF key \in c[p] THEN d[1] * N ELSE 0)]]
        ELSE [page |-> p,
              den |-> N,
              mass |-> [key \in DOMAIN c |-> 1]]

\* (1-damping_factor)/len(corpus) in the units of transition_model's result
BaseMass(c, p, d) == (d[2] - d[1]) * Cardinality(c[p])

----------------------------------------------------------------------------
\* sample_pagerank, lines 73-99

\* Lines 88-93: the first key, in key order, whose cumulative mass exceeds
\* the draw; the previous nextpage when no key does.
RECURSIVE PickFrom(_, _, _, _, _)
PickFrom(m, choice, key, total, old) ==
    IF key \notin DOMAIN m.mass THEN old
    ELSE IF total + m.mass[key] > choice THEN key
    ELSE PickFrom(m, choice, key + 1, total + m.mass[key], old)

Pick(m, choice, old) == PickFrom(m, choice, 1, 0, old)

\* Line 94 without the previous count: pageRanks[page] = 1
VisitOverwrite(ranks, p) ==
    [q \in DOMAIN ranks \cup {p} |-> IF q = p THEN 1 ELSE ranks[q]]

\* Line 94: pageRanks[page] = pageRanks.get(page,0) + 1
Visit(ranks, p) ==
    IF p \in DOMAIN ranks
    THEN [ranks EXCEPT ![p] = @ + 1]
    ELSE [q \in DOMAIN ranks \cup {p} |-> IF q = p THEN 1 ELSE ranks[q]]

----------------------------------------------------------------------------
\* iterate_pagerank, lines 102-143

\* The sink rewrite giving a page without links only itself as its link.
SinkRewriteSelf(c) ==
    [p \in DOMAIN c |-> IF c[p] = {} THEN {p} ELSE c[p]]

\* Lines 118-120: a page without links gets every page of the corpus as its
\* links, written into the caller's dictionary.
SinkRewrite(c) ==
    [p \in DOMAIN c |-> IF c[p] = {} THEN DOMAIN c ELSE c[p]]

\* Lines 115-116 and 125-129: links_to[link] is the set of pages linking to it.
LinksTo(c) ==
    [p \in DOMAIN c |-> {q \in DOMAIN c : p \in c[q]}]

\* (1-damping_factor)/len(corpus), line 136
Base(c, d) == DivRound((d[2] - d[1]) * Scale, d[2] * Cardinality(DOMAIN c))

\* damping_factor * (pageRank[link] / len(corpus[link])), line 138
Share(rank, c, d, link) ==
    DivRound(d[1] * DivRound(rank[link], Cardinality(c[link])), d[2])

RECURSIVE SumShares(_, _, _, _)
SumShares(rank, c, d, S) ==
    IF S = {} THEN 0
    ELSE LET q == CHOOSE y \in S : TRUE
         IN Share(rank, c, d, q) + SumShares(rank, c, d, S \ {q})

\* Lines 136-138 for one page: the new rank is accumulated in pageRank[page]
\* itself, starting from the base.  The shares read pageRank as it is now:
\* pages earlier in the key order already hold this pass's values, and the
\* page's own share (when it is in its own links_to set) reads the sum
\* accumulated so far.
UpdatePage(rank, c, lt, bef, d, p) ==
    LET others == lt[p] \ {p}
        pre == IF p \in lt[p] THEN bef[p] ELSE others
        acc1 == Base(c, d) + SumShares(rank, c, d, pre)
        acc2 == IF p \in lt[p]
                THEN acc1 + Share([rank EXCEPT ![p] = acc1], c, d, p)
                ELSE acc1
    IN  acc2 + SumShares(rank, c, d, others \ pre)

\* Lines 135-138: one pass over the pages in key order, from page k on.
RECURSIVE PassFrom(_, _, _, _, _, _)
PassFrom(rank, c, lt, bef, d, k) ==
    IF k \notin DOMAIN rank THEN rank
    ELSE PassFrom([rank EXCEPT ![k] = UpdatePage(rank, c, lt, bef, d, k)],
                  c, lt, bef, d, k + 1)

Pass(rank, c, lt, bef, d) == PassFrom(rank, c, lt, bef, d, 1)

\* Lines 134 and 140-141: the largest absolute change of a pass (0 for none).
RECURSIVE MaxDiffOver(_, _, _)
MaxDiffOver(new, old, S) ==
    IF S = {} THEN 0
    ELSE LET p == CHOOSE y \in S : TRUE
             rest == MaxDiffOver(new, old, S \ {p})
             diff == Abs(new[p] - old[p])
         IN IF diff > rest THEN diff ELSE rest

MaxDiff(new, old) == MaxDiffOver(new, old, DOMAIN new)

\* The enumeration orders of the links_to sets, as far as line 138 can tell
\* them apart: for each page of S (the pages in their own set), which other
\* members come before the page itself.
RECURSIVE OrdersOver(_, _)
OrdersOver(lt, S) ==
    IF S = {} THEN {<<>>}
    ELSE LET p == CHOOSE y \in S : TRUE
         IN {(p :> s) @@ f : s \in SUBSET (lt[p] \ {p}), f \in OrdersOver(lt, S \ {p})}

Orders(lt) == OrdersOver(lt, {p \in DOMAIN lt : p \in lt[p]})

----------------------------------------------------------------------------
\* The state machine

InitWith(G) ==
    /\ corpus \in G
    /\ graph0 = corpus
    /\ damping_factor \in Dampings
    /\ pc = "main"
    /\ model = NoModel
    /\ n = 0 /\ i = 0
    /\ page = 0 /\ nextpage = 0
    /\ pageRanks = <<>>
    /\ pageRank = <<>>
    /\ lastrank = <<>>
    /\ links_to = <<>>
    /\ before = <<>>
    /\ maxdifference = 0
    /\ ret = NoRet

Init == InitWith(UNION {Graphs(k) : k \in 0..MaxNodes})

sampleLocals == <<n, i, page, nextpage, pageRanks>>
iterLocals == <<pageRank, lastrank, links_to, before, maxdifference>>

\* A direct call of transition_model for a page of the corpus.
CallTransitionModel ==
    /\ pc = "main"
    /\ \E p \in DOMAIN corpus :
          model' = transition_model(corpus, p, damping_factor)
    /\ ret' = NoRet
    /\ UNCHANGED <<corpus, graph0, damping_factor, pc>>
    /\ UNCHANGED sampleLocals
    /\ UNCHANGED iterLocals

\* Lines 82-84.  random.choice raises IndexError on an empty list.
SampleStart ==
    /\ pc = "main"
    /\ \E k \in 1..MaxSamples : n' = k
    /\ i' = 0
    /\ nextpage' = 0
    /\ pageRanks' = <<>>
    /\ model' = NoModel
    /\ IF DOMAIN corpus = {}
       THEN /\ pc' = "raised"
            /\ page' = 0
            /\ ret' = [NoRet EXCEPT !.fn = "sample_pagerank", !.exc = "IndexError"]
       ELSE /\ pc' = "sampling"
            /\ page' \in DOMAIN corpus
            /\ ret' = NoRet
    /\ UNCHANGED <<corpus, graph0, damping_factor>>
    /\ UNCHANGED iterLocals

\* Lines 85-95: one iteration of the sampling loop.
SampleStep ==
    /\ pc = "sampling"
    /\ i < n
    /\ LET m == transition_model(corpus, page, damping_factor)
       IN  /\ model' = m
           /\ \E choice \in 0..(m.den - 1) :
                 nextpage' = Pick(m, choice, nextpage)
    /\ pageRanks' = Visit(pageRanks, page)
    /\ page' = nextpage'
    /\ i' = i + 1
    /\ UNCHANGED <<corpus, graph0, damping_factor, pc, n, ret>>
    /\ UNCHANGED iterLocals

\* Lines 97-99: every counter divided by n; the table is returned.
SampleReturn ==
    /\ pc = "sampling"
    /\ i = n
    /\ ret' = [NoRet EXCEPT !.fn = "sample_pagerank", !.den = n, !.num = pageRanks]
    /\ pc' = "main"
    /\ model' = NoModel
    /\ n' = 0 /\ i' = 0 /\ page' = 0 /\ nextpage' = 0 /\ pageRanks' = <<>>
    /\ UNCHANGED <<corpus, graph0, damping_factor>>
    /\ UNCHANGED iterLocals

\* Lines 113-131: the sink rewrite, the reverse index, the initial ranks.
IterStart ==
    /\ pc = "main"
    /\ corpus' = SinkRewrite(corpus)
    /\ links_to' = LinksTo(corpus')
    /\ before' \in Orders(links_to')
    /\ pageRank' = [p \in DOMAIN corpus |-> DivRound(Scale, Cardinality(DOMAIN corpus))]
    /\ lastrank' = <<>>
    /\ maxdifference' = Scale
    /\ pc' = "iterating"
    /\ model' = NoModel
    /\ ret' = NoRet
    /\ UNCHANGED <<graph0, damping_factor>>
    /\ UNCHANGED sampleLocals

\* Lines 132-141: one pass of the while loop.
IterPass ==
    /\ pc = "iterating"
    /\ maxdifference > Tolerance
    /\ lastrank' = pageRank
    /\ pageRank' = Pass(pageRank, corpus, links_to, before, damping_factor)
    /\ maxdifference' = MaxDiff(pageRank', lastrank')
    /\ UNCHANGED <<corpus, graph0, damping_factor, pc, model, links_to, before, ret>>
    /\ UNCHANGED sampleLocals

\* Line 143
IterReturn ==
    /\ pc = "iterating"
    /\ ~(maxdifference > Tolerance)
    /\ ret' = [NoRet EXCEPT !.fn = "iterate_pagerank", !.den = Scale, !.num = pageRank]
    /\ pc' = "main"
    /\ pageRank' = <<>> /\ lastrank' = <<>> /\ links_to' = <<>> /\ before' = <<>>
    /\ maxdifference' = 0
    /\ UNCHANGED <<corpus, graph0, damping_factor, model>>
    /\ UNCHANGED sampleLocals

Next ==
    \/ CallTransitionModel
    \/ SampleStart
    \/ SampleStep
    \/ SampleReturn
    \/ IterStart
    \/ IterPass
    \/ IterReturn

Spec == Init /\ [][Next]_vars

\* iterate_pagerank alone, on the corpora of MaxLiveNodes pages in which
\* every page links to another one.  The program is sequential: once the
\* call has started, the loop's next step (another pass, or the return) is
\* taken.
LiveGraphs == {g \in Graphs(MaxLiveNodes) : \A p \in DOMAIN g : g[p] # {}}

LiveInit == InitWith(LiveGraphs)

LiveNext ==
    \/ IterStart
    \/ IterPass
    \/ IterReturn

LiveSpec ==
    LiveInit /\ [][LiveNext]_vars /\ WF_vars(IterPass) /\ WF_vars(IterReturn)

----------------------------------------------------------------------------
\* The claims

Returned(fn) == pc = "main" /\ ret.fn = fn /\ ret.exc = ""

\* C1: iterate_pagerank never mutates the caller's graph: after the call
\* returns, the adjacency mapping is what it was before the call (a sink's
\* outlink set is still empty).
C1_GraphUnchanged ==
    Returned("iterate_pagerank") => corpus = graph0

\* C2: for a non-empty graph the table iterate_pagerank returns sums to 1
\* within 1e-4.
C2_IterateSumsToOne ==
    (Returned("iterate_pagerank") /\ DOMAIN graph0 # {})
        => Abs(Sum(ret.num) - Scale) <= Scale \div 10^4

\* C3: transition_model returns a distribution with exactly one entry per page
\* of the graph, every entry non-negative, the entries summing to 1.
C3_ModelIsDistribution ==
    model # NoModel
        => /\ DOMAIN model.mass = DOMAIN corpus
           /\ \A key \in DOMAIN model.mass : model.mass[key] >= 0
           /\ model.den > 0
           /\ Sum(model.mass) = model.den

\* C3 witness: the distribution has been computed for a page without links and
\* for DAMPING, in a graph of two pages.
C3_Witness ==
    /\ model # NoModel
    /\ corpus[model.page] = {}
    /\ Cardinality(DOMAIN corpus) = 2
    /\ damping_factor = DAMPING

\* C4: the values sample_pagerank returns sum to 1: every step of the loop adds
\* one visit to one page, so the counters total i during the loop and n at the
\* division by n.
C4_SampleSumsToOne ==
    /\ pc = "sampling" => Sum(pageRanks) = i
    /\ Returned("sample_pagerank")
          => /\ ret.den >= 1
             /\ Sum(ret.num) = ret.den

\* C4 witness: a walk of two steps that stayed on one page has returned.
C4_Witness ==
    /\ Returned("sample_pagerank")
    /\ ret.den = 2
    /\ \E p \in DOMAIN ret.num : ret.num[p] = 2
    /\ Cardinality(DOMAIN corpus) = 2

\* C5: every table either estimator returns has exactly one entry per page of
\* the graph, pages the walk never visited included.
C5_OneEntryPerNode ==
    (Returned("sample_pagerank") \/ Returned("iterate_pagerank"))
        => DOMAIN ret.num = DOMAIN corpus

\* C6 as stated: for a page with links and any damping in [0,1], every page
\* gets at least (1-damping)/|graph| and every linked page strictly more.
C6_LinkedStrictlyMore ==
    (model # NoModel /\ corpus[model.page] # {})
        => /\ \A key \in DOMAIN corpus :
                model.mass[key] >= BaseMass(corpus, model.page, damping_factor)
           /\ \A link \in corpus[model.page] :
                model.mass[link] > BaseMass(corpus, model.page, damping_factor)

\* C6 amended: for a page with links, every page gets at least
\* (1-damping)/|graph|; every linked page gets strictly more when damping > 0
\* and exactly (1-damping)/|graph| when damping = 0.
C6_LinkedMoreIfDamped ==
    (model # NoModel /\ corpus[model.page] # {})
        => /\ \A key \in DOMAIN corpus :
                model.mass[key] >= BaseMass(corpus, model.page, damping_factor)
           /\ \A link \in corpus[model.page] :
                IF damping_factor[1] > 0
                THEN model.mass[link] > BaseMass(corpus, model.page, damping_factor)
                ELSE model.mass[link] = BaseMass(corpus, model.page, damping_factor)

\* C6 witness: the distribution has been computed with a damping above 0 for a
\* page that links to one page and not to another.
C6_Witness ==
    /\ model # NoModel
    /\ damping_factor[1] > 0
    /\ corpus[model.page] # {}
    /\ corpus[model.page] # DOMAIN corpus

\* The graph {A: {B}, B: {}} of C7, under either key order.
IsSinkPair(g, a, b) ==
    /\ DOMAIN g = {a, b}
    /\ a # b
    /\ g[a] = {b}
    /\ g[b] = {}

Near(x, y) == Abs(x - y) <= Scale \div 10^3

C8_EmptyGraphRaises ==
    DOMAIN graph0 = {}
        => /\ ~Returned("sample_pagerank")
           /\ ~Returned("iterate_pagerank")

\* C9: after every full pass, every rank is
\* (1-damping)/|graph| + damping * (sum over q in links_to(p) of
\* rank_prev(q)/|outlinks(q)|), rank_prev the snapshot taken before the pass.
C9_PassIsJacobi ==
    (pc = "iterating" /\ DOMAIN lastrank # {})
        => \A p \in DOMAIN pageRank :
              pageRank[p] = Base(corpus, damping_factor)
                  + SumShares(lastrank, corpus, damping_factor, links_to[p])

\* C10: a call of iterate_pagerank that has started ends: it returns its table
\* after a pass that changed no rank by more than the tolerance, or it reports
\* NonConvergence.
C10_IterateEnds ==
    (pc = "iterating") ~>
        \/ Returned("iterate_pagerank")
        \/ ret.exc = "NonConvergence"

====
